---- MODULE Spec2Model ----
(***************************************************************************)
(* The encrypted-storage envelope of src/storage/secure_storage.py:        *)
(* SecureStorage.__init__, _derive_key, encrypt_data, decrypt_data,        *)
(* store_encrypted and load_encrypted, over the process environment, the   *)
(* system random source and a file system.                                 *)
(*                                                                         *)
(* Python values are records [t |-> type name, v |-> content]:             *)
(*   str    v = sequence of code points                                    *)
(*   bytes  v = sequence of byte values 0..255                             *)
(*   int    v = <<n>>          float v = the number's lexeme               *)
(*   bool   v = <<0>> or <<1>> NoneType v = <<>>                           *)
(*   list   v = sequence of values                                         *)
(*   dict   v = sequence of <<key, value>> pairs in insertion order        *)
(* The outcome of a call is [exc, msg, val]: exc = "none" and the returned *)
(* value, or the class of the exception that reaches the caller and the    *)
(* pieces of its message.                                                  *)
(*                                                                         *)
(* Cryptography is modelled symbolically (perfect cryptography): PBKDF2    *)
(* is an injective term over (password, salt, iterations, length), an      *)
(* AES-GCM tag is a term over (key, nonce, ciphertext body) that verifies  *)
(* only against the same triple, and secrets.token_bytes never returns a   *)
(* value it returned before.                                               *)
(***************************************************************************)
EXTENDS Integers, Sequences, FiniteSets, TLC

VARIABLES
    env,        \* os.environ[key_env_var]: [set |-> BOOLEAN, v |-> code points]
    storage,    \* the SecureStorage handle: [exists, key_env_var]
    initSecret, \* history: the environment value seen by __init__
    used,       \* the byte strings secrets.token_bytes has returned so far
    produced,   \* history: one record per envelope encrypt_data returned, with
                \* the path it was written to, if store_encrypted wrote it
    fs,         \* the file system: path -> file
    last,       \* the last call: its operation, inputs and outcome
    threads     \* the calls in progress on the handle, one per thread: the
                \* position in the method's body and its local variables

vars == <<env, storage, initSecret, used, produced, fs, last, threads>>

----------------------------------------------------------------------------
(* Bounds of the model *)

\* number of distinct values the random source can still hand out per length,
\* hence the number of encrypt_data calls that reach key derivation
MaxEncrypts == 2

\* the interpreter's recursion limit as json.loads meets it (about 1000 frames
\* in CPython), scaled down
RecursionLimit == 2

----------------------------------------------------------------------------
(* Program constants: SecureStorage class attributes *)

SALT_LENGTH == 16
NONCE_LENGTH == 12
KEY_LENGTH == 32
ITERATIONS == 100000

\* AES-GCM appends a 16-byte tag (AESGCM.encrypt as called at line 96)
TAG_LENGTH == 16

\* the default of __init__'s key_env_var parameter
KEY_ENV_VAR == "VAULTGPT_ENCRYPTION_KEY"

----------------------------------------------------------------------------
(* Python values *)

PyStr(s) == [t |-> "str", v |-> s]
PyBytes(b) == [t |-> "bytes", v |-> b]
PyInt(n) == [t |-> "int", v |-> <<n>>]
PyFloat(lexeme) == [t |-> "float", v |-> lexeme]
PyBool(b) == [t |-> "bool", v |-> IF b THEN <<1>> ELSE <<0>>]
PyNone == [t |-> "NoneType", v |-> <<>>]
PyList(items) == [t |-> "list", v |-> items]
PyDict(pairs) == [t |-> "dict", v |-> pairs]

\* a call's outcome: a returned value, or an exception reaching the caller
Returned(value) == [exc |-> "none", msg |-> <<>>, val |-> value, log |-> <<>>]
Raised(cls, message) ==
    [exc |-> cls, msg |-> message, val |-> PyNone, log |-> <<>>]

\* logger.error(message) before the call ends with outcome r
Logged(r, message) == [r EXCEPT !.log = Append(@, message)]

----------------------------------------------------------------------------
(* str.encode('utf-8') and bytes.decode('utf-8'), for code points below    *)
(* U+0800 (one- and two-byte forms); the byte values 224..244 that open    *)
(* longer forms are outside the payloads of this model.                    *)

EncodeCodePoint(c) ==
    IF c < 128 THEN <<c>> ELSE <<192 + (c \div 64), 128 + (c % 64)>>

RECURSIVE Utf8Encode(_)
Utf8Encode(s) ==
    IF s = <<>> THEN <<>> ELSE EncodeCodePoint(Head(s)) \o Utf8Encode(Tail(s))

\* [exc |-> "none" or "UnicodeDecodeError", v |-> the code points]
RECURSIVE Utf8Decode(_)
Utf8Decode(b) ==
    IF b = <<>> THEN [exc |-> "none", v |-> <<>>]
    ELSE IF b[1] < 128
    THEN LET r == Utf8Decode(Tail(b))
         IN  [exc |-> r.exc, v |-> IF r.exc = "none" THEN <<b[1]>> \o r.v ELSE <<>>]
    ELSE IF b[1] \in 194..223 /\ Len(b) >= 2 /\ b[2] \in 128..191
    THEN LET r == Utf8Decode(SubSeq(b, 3, Len(b)))
         IN  [exc |-> r.exc,
              v |-> IF r.exc = "none"
                    THEN <<(b[1] - 192) * 64 + (b[2] - 128)>> \o r.v ELSE <<>>]
    ELSE [exc |-> "UnicodeDecodeError", v |-> <<>>]

----------------------------------------------------------------------------
(* json.dumps with its defaults: ensure_ascii, separators ", " and ": "    *)

RECURSIVE NatDigits(_)
NatDigits(n) ==
    IF n < 10 THEN <<48 + n>> ELSE NatDigits(n \div 10) \o <<48 + (n % 10)>>

IntText(n) == IF n < 0 THEN <<45>> \o NatDigits(-n) ELSE NatDigits(n)

HexDigit(d) == IF d < 10 THEN 48 + d ELSE 87 + d

EscapeChar(c) ==
    IF c = 34 THEN <<92, 34>>
    ELSE IF c = 92 THEN <<92, 92>>
    ELSE IF c = 10 THEN <<92, 110>>
    ELSE IF c = 13 THEN <<92, 114>>
    ELSE IF c = 9 THEN <<92, 116>>
    ELSE IF c = 8 THEN <<92, 98>>
    ELSE IF c = 12 THEN <<92, 102>>
    ELSE IF c < 32 \/ c > 126
    THEN <<92, 117, HexDigit(c \div 4096), HexDigit((c \div 256) % 16),
           HexDigit((c \div 16) % 16), HexDigit(c % 16)>>
    ELSE <<c>>

RECURSIVE EscapeChars(_)
EscapeChars(s) ==
    IF s = <<>> THEN <<>> ELSE EscapeChar(Head(s)) \o EscapeChars(Tail(s))

QuotedText(s) == <<34>> \o EscapeChars(s) \o <<34>>

\* the text of a dict key: str as is, int/bool/None converted to their text
KeyText(k) ==
    IF k.t = "str" THEN [exc |-> "none", v |-> QuotedText(k.v)]
    ELSE IF k.t = "int" THEN [exc |-> "none", v |-> QuotedText(IntText(k.v[1]))]
    ELSE IF k.t = "bool"
    THEN [exc |-> "none",
          v |-> QuotedText(IF k.v[1] = 1 THEN <<116, 114, 117, 101>>
                           ELSE <<102, 97, 108, 115, 101>>)]
    ELSE IF k.t = "NoneType"
    THEN [exc |-> "none", v |-> QuotedText(<<110, 117, 108, 108>>)]
    ELSE [exc |-> "TypeError", v |-> <<>>]

\* [exc |-> "none" or "TypeError", v |-> the JSON text as code points]
RECURSIVE JsonEncode(_), JsonEncodeItems(_), JsonEncodeMembers(_)
JsonEncode(x) ==
    IF x.t = "str" THEN [exc |-> "none", v |-> QuotedText(x.v)]
    ELSE IF x.t = "int" THEN [exc |-> "none", v |-> IntText(x.v[1])]
    ELSE IF x.t = "float" THEN [exc |-> "none", v |-> x.v]
    ELSE IF x.t = "bool"
    THEN [exc |-> "none",
          v |-> IF x.v[1] = 1 THEN <<116, 114, 117, 101>>
                ELSE <<102, 97, 108, 115, 101>>]
    ELSE IF x.t = "NoneType" THEN [exc |-> "none", v |-> <<110, 117, 108, 108>>]
    ELSE IF x.t = "list"
    THEN LET r == JsonEncodeItems(x.v)
         IN  [exc |-> r.exc,
              v |-> IF r.exc = "none" THEN <<91>> \o r.v \o <<93>> ELSE <<>>]
    ELSE IF x.t = "dict"
    THEN LET r == JsonEncodeMembers(x.v)
         IN  [exc |-> r.exc,
              v |-> IF r.exc = "none" THEN <<123>> \o r.v \o <<125>> ELSE <<>>]
    ELSE [exc |-> "TypeError", v |-> <<>>]

JsonEncodeItems(items) ==
    IF items = <<>> THEN [exc |-> "none", v |-> <<>>]
    ELSE LET h == JsonEncode(Head(items))
             r == JsonEncodeItems(Tail(items))
         IN  IF h.exc # "none" THEN h
             ELSE IF r.exc # "none" THEN r
             ELSE [exc |-> "none",
                   v |-> IF Tail(items) = <<>> THEN h.v
                         ELSE h.v \o <<44, 32>> \o r.v]

JsonEncodeMembers(pairs) ==
    IF pairs = <<>> THEN [exc |-> "none", v |-> <<>>]
    ELSE LET k == KeyText(Head(pairs)[1])
             h == JsonEncode(Head(pairs)[2])
             r == JsonEncodeMembers(Tail(pairs))
         IN  IF k.exc # "none" THEN k
             ELSE IF h.exc # "none" THEN h
             ELSE IF r.exc # "none" THEN r
             ELSE [exc |-> "none",
                   v |-> IF Tail(pairs) = <<>> THEN k.v \o <<58, 32>> \o h.v
                         ELSE k.v \o <<58, 32>> \o h.v \o <<44, 32>> \o r.v]

JsonDumps(x) == JsonEncode(x)

----------------------------------------------------------------------------
(* json.loads with its defaults (strict strings, NaN and Infinity          *)
(* accepted).  A parse step returns [exc, v, i]: the exception class or    *)
(* "none", the value, and the index after it.  Integer literals stay below *)
(* the interpreter's digit limit in this model.                            *)

JsonFail == [exc |-> "JSONDecodeError", v |-> PyNone, i |-> 0]
JsonTooDeep == [exc |-> "RecursionError", v |-> PyNone, i |-> 0]
JsonOk(value, next) == [exc |-> "none", v |-> value, i |-> next]

IsWs(c) == c \in {32, 9, 10, 13}
IsDigit(c) == c \in 48..57
IsHex(c) == c \in (48..57) \cup (97..102) \cup (65..70)
HexValue(c) == IF c <= 57 THEN c - 48 ELSE IF c >= 97 THEN c - 87 ELSE c - 55

RECURSIVE SkipWs(_, _)
SkipWs(s, i) == IF i <= Len(s) /\ IsWs(s[i]) THEN SkipWs(s, i + 1) ELSE i

RECURSIVE SkipDigits(_, _)
SkipDigits(s, i) == IF i <= Len(s) /\ IsDigit(s[i]) THEN SkipDigits(s, i + 1) ELSE i

\* the value of the digits s[a..b]
RECURSIVE DigitsValue(_, _, _)
DigitsValue(s, a, b) ==
    IF a > b THEN 0 ELSE DigitsValue(s, a, b - 1) * 10 + (s[b] - 48)

HasPrefixAt(s, i, lit) ==
    i + Len(lit) - 1 <= Len(s) /\ SubSeq(s, i, i + Len(lit) - 1) = lit

\* NUMBER_RE: (-?(?:0|[1-9]\d*))(\.\d+)?([eE][-+]?\d+)?
\* the number that starts at i, its integer part being s[a..b-1], its
\* fraction ending before c and its exponent before d
NumberValue(s, i, a, b, d) ==
    IF d > b THEN JsonOk(PyFloat(SubSeq(s, i, d - 1)), d)
    ELSE JsonOk(PyInt(IF s[i] = 45 THEN 0 - DigitsValue(s, a, b - 1)
                      ELSE DigitsValue(s, a, b - 1)), b)

\* the index of the first exponent digit when s[c] opens an exponent, else 0
ExponentStart(s, c) ==
    IF c + 1 <= Len(s) /\ s[c] \in {101, 69}
    THEN IF s[c + 1] \in {43, 45} THEN c + 2 ELSE c + 1
    ELSE 0

NumberExponent(s, i, a, b, c, e) ==
    IF e > 0 /\ e <= Len(s) /\ IsDigit(s[e])
    THEN NumberValue(s, i, a, b, SkipDigits(s, e))
    ELSE NumberValue(s, i, a, b, c)

NumberFraction(s, i, a, b, c) == NumberExponent(s, i, a, b, c, ExponentStart(s, c))

NumberInteger(s, i, a, b) ==
    IF b + 1 <= Len(s) /\ s[b] = 46 /\ IsDigit(s[b + 1])
    THEN NumberFraction(s, i, a, b, SkipDigits(s, b + 1))
    ELSE NumberFraction(s, i, a, b, b)

NumberSign(s, i, a) ==
    IF ~(a <= Len(s) /\ IsDigit(s[a])) THEN JsonFail
    ELSE IF s[a] = 48 THEN NumberInteger(s, i, a, a + 1)
    ELSE NumberInteger(s, i, a, SkipDigits(s, a))

ParseNumber(s, i) == NumberSign(s, i, IF s[i] = 45 THEN i + 1 ELSE i)

Unescape(c) ==
    IF c = 98 THEN 8 ELSE IF c = 102 THEN 12 ELSE IF c = 110 THEN 10
    ELSE IF c = 114 THEN 13 ELSE IF c = 116 THEN 9 ELSE c

\* py_scanstring from the index after the opening quote
RECURSIVE ScanString(_, _, _)
ScanString(s, i, acc) ==
    IF i > Len(s) THEN JsonFail
    ELSE IF s[i] = 34 THEN JsonOk(PyStr(acc), i + 1)
    ELSE IF s[i] < 32 THEN JsonFail
    ELSE IF s[i] # 92 THEN ScanString(s, i + 1, Append(acc, s[i]))
    ELSE IF i + 1 > Len(s) THEN JsonFail
    ELSE IF s[i + 1] = 117 /\ ~(i + 5 <= Len(s) /\ \A k \in 2..5 : IsHex(s[i + k]))
    THEN JsonFail
    ELSE IF s[i + 1] \notin {117, 34, 92, 47, 98, 102, 110, 114, 116} THEN JsonFail
    ELSE ScanString(s, IF s[i + 1] = 117 THEN i + 6 ELSE i + 2,
             Append(acc, IF s[i + 1] = 117
                         THEN HexValue(s[i + 2]) * 4096 + HexValue(s[i + 3]) * 256
                              + HexValue(s[i + 4]) * 16 + HexValue(s[i + 5])
                         ELSE Unescape(s[i + 1])))

\* dict[k] = v: a repeated key keeps its place and takes the new value
DictPut(pairs, k, v) ==
    IF \E n \in 1..Len(pairs) : pairs[n][1] = k
    THEN [n \in 1..Len(pairs) |-> IF pairs[n][1] = k THEN <<k, v>> ELSE pairs[n]]
    ELSE Append(pairs, <<k, v>>)

\* the literal that starts at i, if any: null, true, false, NaN, Infinity,
\* -Infinity; else a number
ParseLiteral(s, i) ==
    IF HasPrefixAt(s, i, <<110, 117, 108, 108>>) THEN JsonOk(PyNone, i + 4)
    ELSE IF HasPrefixAt(s, i, <<116, 114, 117, 101>>) THEN JsonOk(PyBool(TRUE), i + 4)
    ELSE IF HasPrefixAt(s, i, <<102, 97, 108, 115, 101>>)
    THEN JsonOk(PyBool(FALSE), i + 5)
    ELSE IF HasPrefixAt(s, i, <<78, 97, 78>>)
    THEN JsonOk(PyFloat(<<78, 97, 78>>), i + 3)
    ELSE IF HasPrefixAt(s, i, <<73, 110, 102, 105, 110, 105, 116, 121>>)
    THEN JsonOk(PyFloat(SubSeq(s, i, i + 7)), i + 8)
    ELSE IF HasPrefixAt(s, i, <<45, 73, 110, 102, 105, 110, 105, 116, 121>>)
    THEN JsonOk(PyFloat(SubSeq(s, i, i + 8)), i + 9)
    ELSE ParseNumber(s, i)

RECURSIVE ParseValue(_, _, _), ParseContainer(_, _, _, _), ParseItems(_, _, _, _),
          ItemParsed(_, _, _, _), ItemEnd(_, _, _, _), ParseMembers(_, _, _, _),
          KeyParsed(_, _, _, _), KeyEnd(_, _, _, _, _), MemberParsed(_, _, _, _, _),
          MemberEnd(_, _, _, _)

\* scan_once at index i, inside depth containers
ParseValue(s, i, depth) ==
    IF i > Len(s) THEN JsonFail
    ELSE IF s[i] = 34 THEN ScanString(s, i + 1, <<>>)
    ELSE IF s[i] \notin {123, 91} THEN ParseLiteral(s, i)
    ELSE IF depth >= RecursionLimit THEN JsonTooDeep
    ELSE ParseContainer(s, s[i], SkipWs(s, i + 1), depth + 1)

\* an object (open = 123) or array (open = 91) whose first token is at j
ParseContainer(s, open, j, depth) ==
    IF j <= Len(s) /\ s[j] = open + 2
    THEN JsonOk(IF open = 123 THEN PyDict(<<>>) ELSE PyList(<<>>), j + 1)
    ELSE IF open = 123 THEN ParseMembers(s, j, depth, <<>>)
    ELSE ParseItems(s, j, depth, <<>>)

\* the items of an array from an item's index, acc the items so far
ParseItems(s, i, depth, acc) == ItemParsed(s, depth, acc, ParseValue(s, i, depth))

ItemParsed(s, depth, acc, r) ==
    IF r.exc # "none" THEN r
    ELSE ItemEnd(s, depth, Append(acc, r.v), SkipWs(s, r.i))

ItemEnd(s, depth, acc, j) ==
    IF j > Len(s) THEN JsonFail
    ELSE IF s[j] = 93 THEN JsonOk(PyList(acc), j + 1)
    ELSE IF s[j] = 44 THEN ParseItems(s, SkipWs(s, j + 1), depth, acc)
    ELSE JsonFail

\* the members of an object from a key's index, acc the pairs so far
ParseMembers(s, i, depth, acc) ==
    IF i > Len(s) \/ s[i] # 34 THEN JsonFail
    ELSE KeyParsed(s, depth, acc, ScanString(s, i + 1, <<>>))

KeyParsed(s, depth, acc, k) ==
    IF k.exc # "none" THEN k ELSE KeyEnd(s, depth, acc, k.v, SkipWs(s, k.i))

KeyEnd(s, depth, acc, key, c) ==
    IF c > Len(s) \/ s[c] # 58 THEN JsonFail
    ELSE MemberParsed(s, depth, acc, key, ParseValue(s, SkipWs(s, c + 1), depth))

MemberParsed(s, depth, acc, key, r) ==
    IF r.exc # "none" THEN r
    ELSE MemberEnd(s, depth, DictPut(acc, key, r.v), SkipWs(s, r.i))

MemberEnd(s, depth, acc, j) ==
    IF j > Len(s) THEN JsonFail
    ELSE IF s[j] = 125 THEN JsonOk(PyDict(acc), j + 1)
    ELSE IF s[j] = 44 THEN ParseMembers(s, SkipWs(s, j + 1), depth, acc)
    ELSE JsonFail

\* the document is one value followed by whitespace only
DocumentParsed(text, r) ==
    IF r.exc # "none" THEN [exc |-> r.exc, v |-> PyNone]
    ELSE IF SkipWs(text, r.i) # Len(text) + 1
    THEN [exc |-> "JSONDecodeError", v |-> PyNone]
    ELSE [exc |-> "none", v |-> r.v]

\* json.loads(text): leading whitespace, one value, trailing whitespace
JsonLoads(text) == DocumentParsed(text, ParseValue(text, SkipWs(text, 1), 0))

----------------------------------------------------------------------------
(* The names secure_storage.py can resolve: what lines 7-23 import or      *)
(* define, and the builtins.  Raising a class evaluates its name first; a  *)
(* name that is not bound raises NameError in place of the intended error. *)

ModuleGlobals ==
    {"os", "json", "base64", "hashlib", "secrets", "Any", "Dict", "Optional",
     "Union", "AESGCM", "hashes", "PBKDF2HMAC", "InvalidTag", "logging",
     "logger", "SecureStorage"}

Builtins ==
    {"Exception", "EnvironmentError", "KeyError", "TypeError", "ValueError",
     "OSError", "FileNotFoundError", "PermissionError", "NameError",
     "UnicodeDecodeError", "RecursionError"}

\* raise <cls>(<message>) as written in secure_storage.py
RaiseNamed(cls, message) ==
    IF cls \in ModuleGlobals \cup Builtins
    THEN Raised(cls, message)
    ELSE Raised("NameError", <<"name '", cls, "' is not defined">>)

----------------------------------------------------------------------------
(* The environment and the random source *)

Absent == [set |-> FALSE, v |-> <<>>]
EnvValue(s) == [set |-> TRUE, v |-> s]

\* os.getenv(name): None when unset; `not os.getenv(...)` is true for None and ""
GetenvIsFalsy(environ) == ~environ.set \/ environ.v = <<>>

\* the n bytes of the k-th distinct value of the random source
RandomBytes(n, k) == [i \in 1..n |-> k]

\* a source that returns one byte fewer than asked for
token_bytes_short(n, usedSoFar) ==
    RandomBytes(n - 1, Cardinality({u \in usedSoFar : Len(u) = n - 1}) + 1)

\* a source that returns the same bytes on every call
token_bytes_repeating(n, usedSoFar) == RandomBytes(n, 1)

\* secrets.token_bytes(n): a value the source has not returned before; the
\* values are opaque, so the next unused one stands for all of them
token_bytes(n, usedSoFar) ==
    RandomBytes(n, Cardinality({u \in usedSoFar : Len(u) = n}) + 1)

----------------------------------------------------------------------------
(* Key derivation and AES-GCM, symbolically *)

\* PBKDF2HMAC(SHA256, length, salt, iterations).derive(password)
Pbkdf2(password, salt) ==
    [kdf |-> "PBKDF2HMAC-SHA256", length |-> KEY_LENGTH, salt |-> salt,
     iterations |-> ITERATIONS, password |-> password]

\* SecureStorage._derive_key: the master key is read from os.environ here
DeriveKey(environ, salt) ==
    IF ~environ.set
    THEN [exc |-> "KeyError", msg |-> <<"'", KEY_ENV_VAR, "'">>, v |-> <<>>]
    ELSE [exc |-> "none", msg |-> <<>>, v |-> Pbkdf2(Utf8Encode(environ.v), salt)]

\* AESGCM(key).encrypt(nonce, data, None): the ciphertext body followed by the
\* tag, as a term; flipped is the set of byte positions altered since
AesGcmEncrypt(key, nonce, data) ==
    IF data.t # "bytes"
    THEN [exc |-> "TypeError", msg |-> <<"data must be bytes-like">>, v |-> <<>>]
    ELSE [exc |-> "none", msg |-> <<>>,
          v |-> [key |-> key, nonce |-> nonce, pt |-> data.v, flipped |-> {},
                 len |-> Len(data.v) + TAG_LENGTH]]

\* the number of bytes of a ciphertext (fewer than encrypt gave once truncated)
CiphertextLen(ct) == ct.len

\* AESGCM(key).decrypt(nonce, data, None): an empty nonce is refused with
\* ValueError; data shorter than the tag raises InvalidTag; the tag verifies
\* only for the unaltered, whole output of encrypt under the same key and nonce
AesGcmDecrypt(key, nonce, ct) ==
    IF Len(nonce) = 0
    THEN [exc |-> "ValueError", msg |-> <<"Nonce must be between 8 and 128 bytes">>,
          v |-> <<>>]
    ELSE IF ct.len < TAG_LENGTH
    THEN [exc |-> "InvalidTag", msg |-> <<>>, v |-> <<>>]
    ELSE IF ct.key = key /\ ct.nonce = nonce /\ ct.flipped = {}
            /\ ct.len = Len(ct.pt) + TAG_LENGTH
    THEN [exc |-> "none", msg |-> <<>>, v |-> ct.pt]
    ELSE [exc |-> "InvalidTag", msg |-> <<>>, v |-> <<>>]

\* base64.b64encode(...).decode('utf-8') and base64.b64decode
B64Encode(data) == [enc |-> "base64", data |-> data]
B64Decode(text) ==
    IF text.enc = "base64"
    THEN [exc |-> "none", msg |-> <<>>, v |-> text.data]
    ELSE [exc |-> "binascii.Error", msg |-> <<"Incorrect padding">>, v |-> <<>>]

\* a field the envelope does not have, and a field that is not base64 text
MissingField == [enc |-> "missing", data |-> <<>>]
NotBase64 == [enc |-> "text", data |-> <<>>]

\* encrypted_data[name], then base64.b64decode
DecodeField(envelope, name) ==
    IF envelope[name].enc = "missing"
    THEN [exc |-> "KeyError", msg |-> <<"'", name, "'">>, v |-> <<>>]
    ELSE B64Decode(envelope[name])

NoEnvelope == [ciphertext |-> MissingField, salt |-> MissingField,
               nonce |-> MissingField]

----------------------------------------------------------------------------
(* SecureStorage.encrypt_data *)

\* line 83: json.dumps(data).encode('utf-8')
DumpedBytes(data, j) ==
    IF j.exc = "none"
    THEN [exc |-> "none", msg |-> <<>>, v |-> PyBytes(Utf8Encode(j.v))]
    ELSE [exc |-> j.exc, msg |-> <<"not JSON serializable">>, v |-> data]

\* lines 80-85: the bytes to encrypt; any other type passes through unchanged
ToBytes(data) ==
    IF data.t = "str"
    THEN [exc |-> "none", msg |-> <<>>, v |-> PyBytes(Utf8Encode(data.v))]
    ELSE IF data.t = "dict" THEN DumpedBytes(data, JsonDumps(data))
    ELSE [exc |-> "none", msg |-> <<>>, v |-> data]

\* lines 87-89 are reached, and the random source consumed, once the
\* conversion has not raised
DrawsRandom(data) == ToBytes(data).exc = "none"

\* the text of a one-letter string as it reads inside a message
AsText(s) ==
    IF Len(s) # 1 THEN "" ELSE IF s[1] = 65 THEN "A" ELSE IF s[1] = 66 THEN "B" ELSE "?"

\* an encrypt_data whose handler writes the master key to the log
EncryptFailedShowingKey(cause) ==
    Logged(RaiseNamed("EncryptionError", <<"Failed to encrypt data: ">> \o cause.msg),
           <<"Encryption failed with key ", AsText(env.v)>>)

\* lines 109-111: any exception is logged and becomes
\* `raise EncryptionError(...)`
EncryptFailed(cause) ==
    Logged(RaiseNamed("EncryptionError", <<"Failed to encrypt data: ">> \o cause.msg),
           <<"Encryption failed: ">> \o cause.msg)

\* lines 102-107: the envelope of base64 strings
Encrypted(salt, nonce, ct) ==
    IF ct.exc # "none" THEN EncryptFailed(ct)
    ELSE Returned([ciphertext |-> B64Encode(ct.v),
                   salt |-> B64Encode(salt),
                   nonce |-> B64Encode(nonce)])

\* lines 93-100: the cipher under the derived key
EncryptWithKey(salt, nonce, data, key) ==
    IF key.exc # "none" THEN EncryptFailed(key)
    ELSE Encrypted(salt, nonce, AesGcmEncrypt(key.v, nonce, data))

\* lines 87-92, with the salt and nonce token_bytes returned
EncryptConverted(environ, salt, nonce, conv) ==
    IF conv.exc # "none" THEN EncryptFailed(conv)
    ELSE EncryptWithKey(salt, nonce, conv.v, DeriveKey(environ, salt))

\* encrypt_data(data) when token_bytes returns salt and nonce
EncryptData(data, environ, salt, nonce) ==
    EncryptConverted(environ, salt, nonce, ToBytes(data))

----------------------------------------------------------------------------
(* SecureStorage.decrypt_data *)

\* line 145-146: json.loads raised; JSONDecodeError is caught and the text
\* returned, any other exception leaves the inner try
InterpretParsed(text, j) ==
    IF j.exc = "none" THEN Returned(j.v)
    ELSE IF j.exc = "JSONDecodeError" THEN Returned(PyStr(text))
    ELSE Raised(j.exc, <<"maximum recursion depth exceeded">>)

\* line 144: decode, then json.loads; UnicodeDecodeError returns the bytes
InterpretDecoded(bytes, d) ==
    IF d.exc # "none" THEN Returned(PyBytes(bytes))
    ELSE InterpretParsed(d.v, JsonLoads(d.v))

\* lines 143-146: JSON, else text, else bytes
InterpretPlaintext(bytes) == InterpretDecoded(bytes, Utf8Decode(bytes))

\* lines 151-153: any other exception is logged and becomes
\* `raise DecryptionError(...)`
DecryptFailed(cause) ==
    Logged(RaiseNamed("DecryptionError", <<"Failed to decrypt data: ">> \o cause.msg),
           <<"Decryption failed: ">> \o cause.msg)

\* lines 148-150: InvalidTag is logged and becomes `raise DecryptionError(...)`
AuthenticationFailed ==
    Logged(RaiseNamed("DecryptionError",
                      <<"Authentication failed - data may have been tampered with">>),
           <<"Decryption failed: Authentication tag verification failed">>)

\* whether the AEAD tag of the envelope verifies under the environment
TagVerifies(envelope, environ) ==
    LET c == B64Decode(envelope.ciphertext)
        s == B64Decode(envelope.salt)
        n == B64Decode(envelope.nonce)
        key == DeriveKey(environ, s.v)
    IN  /\ c.exc = "none" /\ s.exc = "none" /\ n.exc = "none"
        /\ key.exc = "none"
        /\ AesGcmDecrypt(key.v, n.v, c.v).exc = "none"

\* the return of the inner try, or the outer handler
Interpreted(r) == IF r.exc # "none" THEN DecryptFailed(r) ELSE r

\* lines 136-146
Decrypted(pt) ==
    IF pt.exc = "InvalidTag" THEN AuthenticationFailed
    ELSE IF pt.exc # "none" THEN DecryptFailed(pt)
    ELSE Interpreted(InterpretPlaintext(pt.v))

\* lines 132-140
DecryptWithKey(ct, nonce, key) ==
    IF key.exc # "none" THEN DecryptFailed(key)
    ELSE Decrypted(AesGcmDecrypt(key.v, nonce, ct))

\* lines 127-132
DecryptDecoded(environ, c, s, n) ==
    IF c.exc # "none" THEN DecryptFailed(c)
    ELSE IF s.exc # "none" THEN DecryptFailed(s)
    ELSE IF n.exc # "none" THEN DecryptFailed(n)
    ELSE DecryptWithKey(c.v, n.v, DeriveKey(environ, s.v))

\* a decrypt_data that remembers the envelope of the call before and
\* refuses to decrypt it a second time
DecryptDataRefusingRepeat(envelope, environ) ==
    IF last.op = "decrypt" /\ last.envelope = envelope
    THEN DecryptFailed(Raised("ValueError", <<"envelope already decrypted">>))
    ELSE DecryptDecoded(environ, DecodeField(envelope, "ciphertext"),
                        DecodeField(envelope, "salt"), DecodeField(envelope, "nonce"))

\* decrypt_data(encrypted_data) under the environment environ
DecryptData(envelope, environ) ==
    DecryptDecoded(environ, DecodeField(envelope, "ciphertext"),
                   DecodeField(envelope, "salt"), DecodeField(envelope, "nonce"))

----------------------------------------------------------------------------
(* Files, and store_encrypted / load_encrypted                             *)
(* A file is missing, holds the JSON object json.dump wrote (kind "json"), *)
(* or holds text that is no JSON document (kind "partial": what open(..,   *)
(* 'w') leaves when the write after it fails).  src and corrupted are      *)
(* history: which produced envelope the file was written from, and whether *)
(* its ciphertext field was altered afterwards.                            *)

\* the paths of the file system, and the one most calls are given
Paths == {"vault.enc", "backup.enc"}
MainPaths == {"vault.enc"}

MissingFile == [kind |-> "missing", obj |-> NoEnvelope, src |-> 0, corrupted |-> FALSE]
PartialFile == [kind |-> "partial", obj |-> NoEnvelope, src |-> 0, corrupted |-> FALSE]
JsonFile(envelope, index) ==
    [kind |-> "json", obj |-> envelope, src |-> index, corrupted |-> FALSE]

\* lines 169-170 and 188-189: any exception becomes `raise StorageError(...)`
\* what encrypt_data or decrypt_data logged stays logged
StoreFailed(cause) ==
    [RaiseNamed("StorageError", <<"Failed to store encrypted data: ">> \o cause.msg)
        EXCEPT !.log = cause.log]
LoadFailed(cause) ==
    [RaiseNamed("StorageError", <<"Failed to load encrypted data: ">> \o cause.msg)
        EXCEPT !.log = cause.log]

\* store_encrypted(data, path): io is what the file system does to
\* open(path, 'w') and to the write: "ok", "open_fails" or "write_fails"
StoreOutcome(encrypted, io) ==
    IF encrypted.exc # "none" THEN StoreFailed(encrypted)
    ELSE IF io = "open_fails"
    THEN StoreFailed(Raised("PermissionError", <<"[Errno 13] Permission denied">>))
    ELSE IF io = "write_fails"
    THEN StoreFailed(Raised("OSError", <<"[Errno 28] No space left on device">>))
    ELSE Returned(PyNone)

\* a store_encrypted that opens the file before it encrypts
StoredFileOpenedFirst(old, encrypted, io, index) ==
    IF io = "open_fails" THEN old
    ELSE IF encrypted.exc # "none" \/ io = "write_fails" THEN PartialFile
    ELSE JsonFile(encrypted.val, index)

\* the file at path after store_encrypted
StoredFile(old, encrypted, io, index) ==
    IF encrypted.exc # "none" \/ io = "open_fails" THEN old
    ELSE IF io = "write_fails" THEN PartialFile
    ELSE JsonFile(encrypted.val, index)

\* line 187: decrypt_data returns, or its exception reaches line 188
LoadDecrypted(r) == IF r.exc # "none" THEN LoadFailed(r) ELSE r

\* load_encrypted(path): io is "ok" or "open_fails"
LoadOutcome(file, environ, io) ==
    IF file.kind = "missing"
    THEN LoadFailed(Raised("FileNotFoundError", <<"[Errno 2] No such file or directory">>))
    ELSE IF io = "open_fails"
    THEN LoadFailed(Raised("PermissionError", <<"[Errno 13] Permission denied">>))
    ELSE IF file.kind = "partial"
    THEN LoadFailed(Raised("JSONDecodeError", <<"Expecting value">>))
    ELSE LoadDecrypted(DecryptData(file.obj, environ))

----------------------------------------------------------------------------
(* Inputs *)

Hello == <<104, 101, 108, 108, 111>>
Digits123 == <<49, 50, 51>>
\* "[[[...": one bracket more than json.loads can nest
DeepNest == [i \in 1..(RecursionLimit + 1) |-> 91]
NotUtf8 == <<255, 254>>

StrPayloads == {PyStr(Hello), PyStr(Digits123), PyStr(DeepNest)}
BytesPayloads == {PyBytes(Hello), PyBytes(NotUtf8)}
\* {"a": 1}
DictPayloads == {PyDict(<< <<PyStr(<<97>>), PyInt(1)>> >>)}
\* [1]
ListPayloads == {PyList(<<PyInt(1)>>)}
Payloads == StrPayloads \cup BytesPayloads \cup DictPayloads \cup ListPayloads

SecretA == <<65>>
SecretB == <<66>>
\* what the environment can hold when the process starts, and what it can be
\* changed to afterwards (another secret, or the variable removed)
EnvValues == {Absent, EnvValue(<<>>), EnvValue(SecretA), EnvValue(SecretB)}
EnvChanges == {Absent, EnvValue(SecretA), EnvValue(SecretB)}

\* the envelope with one bit of byte k of its ciphertext flipped
FlipCiphertext(envelope, k) ==
    [envelope EXCEPT !.ciphertext =
        B64Encode([@.data EXCEPT !.flipped = (@ \ {k}) \cup ({k} \ @)])]

\* envelopes that differ from the given one in ciphertext, salt or nonce
Tampered(envelope) ==
    {FlipCiphertext(envelope, k) : k \in {1, CiphertextLen(envelope.ciphertext.data)}}
    \cup {[envelope EXCEPT !.salt = B64Encode(RandomBytes(SALT_LENGTH, k))] :
            k \in {j \in 1..MaxEncrypts :
                     RandomBytes(SALT_LENGTH, j) # envelope.salt.data}}
    \cup {[envelope EXCEPT !.nonce = B64Encode(RandomBytes(NONCE_LENGTH, k))] :
            k \in {j \in 1..MaxEncrypts :
                     RandomBytes(NONCE_LENGTH, j) # envelope.nonce.data}}

\* envelopes that are not what encrypt_data returns: a field missing, a
\* field that is not base64, an empty nonce, a ciphertext cut below the length
\* of the tag, a salt one byte short
Malformed(envelope) ==
    {[envelope EXCEPT !.ciphertext = MissingField],
     [envelope EXCEPT !.salt = NotBase64],
     [envelope EXCEPT !.nonce = B64Encode(<<>>)],
     [envelope EXCEPT !.ciphertext = B64Encode([@.data EXCEPT !.len = TAG_LENGTH - 1])],
     [envelope EXCEPT !.salt = B64Encode(RandomBytes(SALT_LENGTH - 1, 1))]}

\* the envelopes decrypt_data is called with, given one encrypt_data returned
Presented(envelope) == {envelope} \cup Tampered(envelope) \cup Malformed(envelope)

----------------------------------------------------------------------------
(* The state machine *)

\* the threads that call the handle, and a thread that is in no call
ThreadIds == {"t1", "t2"}
IdleThread ==
    [pc |-> "idle", op |-> "", data |-> PyNone, envelope |-> NoEnvelope,
     bytes |-> PyNone, salt |-> <<>>, nonce |-> <<>>,
     key |-> [exc |-> "none", msg |-> <<>>, v |-> <<>>], out |-> Returned(PyNone)]

\* the record of a call, before its fields are filled in
Call(op) ==
    [op |-> op, payload |-> PyNone, secret |-> Absent, environ |-> env,
     envelope |-> NoEnvelope, path |-> "", io |-> "ok", tampered |-> FALSE,
     malformed |-> FALSE,
     out |-> Returned(PyNone)]

Init ==
    /\ env \in EnvValues
    /\ storage = [exists |-> FALSE, key_env_var |-> KEY_ENV_VAR]
    /\ initSecret = Absent
    /\ used = {}
    /\ produced = <<>>
    /\ fs = [p \in Paths |-> MissingFile]
    /\ last = [Call("start") EXCEPT !.environ = Absent]
    /\ threads = [t \in ThreadIds |-> IdleThread]

\* the environment variable is set, changed or removed from outside
SetEnv(value) ==
    /\ value # env
    /\ env' = value
    /\ last' = [Call("setenv") EXCEPT !.environ = value]
    /\ UNCHANGED <<storage, initSecret, used, produced, fs, threads>>

\* SecureStorage(): __init__ and _validate_environment
Initialize ==
    /\ ~storage.exists
    /\ IF GetenvIsFalsy(env)
       THEN /\ last' = [Call("init") EXCEPT !.out =
                          RaiseNamed("EnvironmentError",
                              <<"Encryption key not found in environment variable: ",
                                KEY_ENV_VAR>>)]
            /\ UNCHANGED <<storage, initSecret>>
       ELSE /\ storage' = [storage EXCEPT !.exists = TRUE]
            /\ initSecret' = env
            /\ last' = Call("init")
    /\ UNCHANGED <<env, used, produced, fs, threads>>

SaltsDrawn == Cardinality({u \in used : Len(u) = SALT_LENGTH})

\* the effects of a call of encrypt_data that ended with out
EncryptCall(data, out) ==
    /\ used' = IF DrawsRandom(data)
               THEN used \cup {token_bytes(SALT_LENGTH, used),
                               token_bytes(NONCE_LENGTH, used)}
               ELSE used
    /\ produced' = IF out.exc = "none"
                   THEN Append(produced, [payload |-> data, secret |-> env,
                                          envelope |-> out.val, stored |-> ""])
                   ELSE produced
    /\ last' = [Call("encrypt") EXCEPT !.payload = data, !.secret = env,
                  !.envelope = IF out.exc = "none" THEN out.val ELSE NoEnvelope,
                  !.out = out]

\* storage.encrypt_data(data)
Encrypt(data) ==
    /\ storage.exists
    /\ DrawsRandom(data) => SaltsDrawn < MaxEncrypts
    /\ EncryptCall(data, EncryptData(data, env, token_bytes(SALT_LENGTH, used),
                                     token_bytes(NONCE_LENGTH, used)))
    /\ UNCHANGED <<env, storage, initSecret, fs, threads>>

\* storage.decrypt_data(envelope), the envelope being one encrypt_data
\* returned earlier (produced[i]) or an altered copy of it
Decrypt(i, envelope) ==
    /\ storage.exists
    /\ i \in DOMAIN produced
    /\ envelope \in Presented(produced[i].envelope)
    /\ last' = [Call("decrypt") EXCEPT !.payload = produced[i].payload,
                  !.secret = produced[i].secret, !.envelope = envelope,
                  !.tampered = (envelope \in Tampered(produced[i].envelope)),
                  !.malformed = (envelope \in Malformed(produced[i].envelope)),
                  !.out = DecryptData(envelope, env)]
    /\ UNCHANGED <<env, storage, initSecret, used, produced, fs, threads>>

\* the effects of store_encrypted when its encrypt_data ended with encrypted
StoreCall(data, path, io, encrypted) ==
    /\ used' = IF DrawsRandom(data)
               THEN used \cup {token_bytes(SALT_LENGTH, used),
                               token_bytes(NONCE_LENGTH, used)}
               ELSE used
    /\ produced' = IF encrypted.exc = "none"
                   THEN Append(produced, [payload |-> data, secret |-> env,
                                          envelope |-> encrypted.val,
                                          stored |-> IF io = "ok" THEN path ELSE ""])
                   ELSE produced
    /\ fs' = [fs EXCEPT ![path] = StoredFile(@, encrypted, io, Len(produced) + 1)]
    /\ last' = [Call("store") EXCEPT !.payload = data, !.secret = env,
                  !.path = path, !.io = io,
                  !.envelope = IF encrypted.exc = "none" THEN encrypted.val
                               ELSE NoEnvelope,
                  !.out = StoreOutcome(encrypted, io)]

\* storage.store_encrypted(data, path)
Store(data, path, io) ==
    /\ storage.exists
    /\ DrawsRandom(data) => SaltsDrawn < MaxEncrypts
    /\ StoreCall(data, path, io,
                 EncryptData(data, env, token_bytes(SALT_LENGTH, used),
                             token_bytes(NONCE_LENGTH, used)))
    /\ UNCHANGED <<env, storage, initSecret, threads>>

\* storage.load_encrypted(path)
Load(path, io) ==
    /\ storage.exists
    /\ io = "open_fails" => fs[path].kind # "missing"
    /\ LET file == fs[path]
           known == file.src # 0
       IN  last' = [Call("load") EXCEPT
                      !.payload = IF known THEN produced[file.src].payload ELSE PyNone,
                      !.secret = IF known THEN produced[file.src].secret ELSE Absent,
                      !.envelope = file.obj, !.path = path, !.io = io,
                      !.tampered = file.corrupted,
                      !.out = LoadOutcome(file, env, io)]
    /\ UNCHANGED <<env, storage, initSecret, used, produced, fs, threads>>

\* the stored envelope's ciphertext field is altered on disk
CorruptFile(path) ==
    /\ fs[path].kind = "json"
    /\ ~fs[path].corrupted
    /\ fs' = [fs EXCEPT ![path] = [@ EXCEPT !.obj = FlipCiphertext(@, 1),
                                              !.corrupted = TRUE]]
    /\ last' = [Call("corrupt") EXCEPT !.path = path]
    /\ UNCHANGED <<env, storage, initSecret, used, produced, threads>>

----------------------------------------------------------------------------
(* encrypt_data and decrypt_data step by step, several calls at a time *)

\* the salt most recently drawn by any call, as if it were kept on the handle
SharedSalt(t) == RandomBytes(SALT_LENGTH, SaltsDrawn)

\* the local variable salt of the call thread t is in
ThreadSalt(t) == threads[t].salt

\* the calls that have converted their data and not yet drawn a salt
AboutToDraw == {t \in ThreadIds : threads[t].pc = "converted"}

\* thread t finishes its call with outcome out
Finished(t, out) == [threads EXCEPT ![t].pc = "done", ![t].out = out]

\* encrypt_data, lines 78-85: the call starts and converts its data
Converted(t, data, conv) ==
    IF conv.exc # "none"
    THEN [Finished(t, EncryptFailed(conv)) EXCEPT ![t].op = "encrypt", ![t].data = data]
    ELSE [threads EXCEPT ![t].pc = "converted", ![t].op = "encrypt",
                         ![t].data = data, ![t].bytes = conv.v]

BeginEncrypt(t, data) ==
    /\ storage.exists
    /\ threads[t].pc = "idle"
    /\ DrawsRandom(data) => SaltsDrawn + Cardinality(AboutToDraw) < MaxEncrypts
    /\ threads' = Converted(t, data, ToBytes(data))
    /\ UNCHANGED <<env, storage, initSecret, used, produced, fs, last>>

\* line 88: salt = secrets.token_bytes(self.SALT_LENGTH)
DrawSalt(t) ==
    /\ threads[t].pc = "converted"
    /\ used' = used \cup {token_bytes(SALT_LENGTH, used)}
    /\ threads' = [threads EXCEPT ![t].pc = "salted",
                                  ![t].salt = token_bytes(SALT_LENGTH, used)]
    /\ UNCHANGED <<env, storage, initSecret, produced, fs, last>>

\* line 89: nonce = secrets.token_bytes(self.NONCE_LENGTH)
DrawNonce(t) ==
    /\ threads[t].pc = "salted"
    /\ used' = used \cup {token_bytes(NONCE_LENGTH, used)}
    /\ threads' = [threads EXCEPT ![t].pc = "nonced",
                                  ![t].nonce = token_bytes(NONCE_LENGTH, used)]
    /\ UNCHANGED <<env, storage, initSecret, produced, fs, last>>

\* line 92: key = self._derive_key(salt), reading os.environ
EncryptKeyed(t, key) ==
    IF key.exc # "none" THEN Finished(t, EncryptFailed(key))
    ELSE [threads EXCEPT ![t].pc = "keyed", ![t].key = key]

DeriveEncryptKey(t) ==
    /\ threads[t].pc = "nonced"
    /\ threads' = EncryptKeyed(t, DeriveKey(env, ThreadSalt(t)))
    /\ UNCHANGED <<env, storage, initSecret, used, produced, fs, last>>

\* lines 93-107: the cipher, and the envelope built from the call's locals
Seal(t) ==
    /\ threads[t].pc = "keyed"
    /\ threads' = Finished(t, Encrypted(ThreadSalt(t), threads[t].nonce,
                                        AesGcmEncrypt(threads[t].key.v,
                                                      threads[t].nonce,
                                                      threads[t].bytes)))
    /\ UNCHANGED <<env, storage, initSecret, used, produced, fs, last>>

\* decrypt_data, lines 125-129: the call starts and decodes the three fields
Decoded(t, envelope, c, s, n) ==
    IF c.exc # "none"
    THEN [Finished(t, DecryptFailed(c)) EXCEPT ![t].op = "decrypt",
                                               ![t].envelope = envelope]
    ELSE IF s.exc # "none"
    THEN [Finished(t, DecryptFailed(s)) EXCEPT ![t].op = "decrypt",
                                               ![t].envelope = envelope]
    ELSE IF n.exc # "none"
    THEN [Finished(t, DecryptFailed(n)) EXCEPT ![t].op = "decrypt",
                                               ![t].envelope = envelope]
    ELSE [threads EXCEPT ![t].pc = "decoded", ![t].op = "decrypt",
                         ![t].envelope = envelope, ![t].bytes = c.v,
                         ![t].salt = s.v, ![t].nonce = n.v]

BeginDecrypt(t, envelope) ==
    /\ storage.exists
    /\ threads[t].pc = "idle"
    /\ threads' = Decoded(t, envelope, DecodeField(envelope, "ciphertext"),
                          DecodeField(envelope, "salt"), DecodeField(envelope, "nonce"))
    /\ UNCHANGED <<env, storage, initSecret, used, produced, fs, last>>

\* line 132: key = self._derive_key(salt), reading os.environ
DecryptKeyed(t, key) ==
    IF key.exc # "none" THEN Finished(t, DecryptFailed(key))
    ELSE [threads EXCEPT ![t].pc = "unlocked", ![t].key = key]

DeriveDecryptKey(t) ==
    /\ threads[t].pc = "decoded"
    /\ threads' = DecryptKeyed(t, DeriveKey(env, ThreadSalt(t)))
    /\ UNCHANGED <<env, storage, initSecret, used, produced, fs, last>>

\* lines 133-153: the cipher, the format fallback and the handlers
Open(t) ==
    /\ threads[t].pc = "unlocked"
    /\ threads' = Finished(t, Decrypted(AesGcmDecrypt(threads[t].key.v,
                                                      threads[t].nonce,
                                                      threads[t].bytes)))
    /\ UNCHANGED <<env, storage, initSecret, used, produced, fs, last>>

\* the call returns or raises to its caller
Return(t) ==
    /\ threads[t].pc = "done"
    /\ threads' = [threads EXCEPT ![t] = IdleThread]
    /\ produced' = IF threads[t].op = "encrypt" /\ threads[t].out.exc = "none"
                   THEN Append(produced, [payload |-> threads[t].data,
                                          secret |-> env,
                                          envelope |-> threads[t].out.val,
                                          stored |-> ""])
                   ELSE produced
    /\ last' = [Call(threads[t].op) EXCEPT
                  !.payload = threads[t].data,
                  !.envelope = IF threads[t].op = "decrypt" THEN threads[t].envelope
                               ELSE IF threads[t].out.exc = "none"
                               THEN threads[t].out.val ELSE NoEnvelope,
                  !.out = threads[t].out]
    /\ UNCHANGED <<env, storage, initSecret, used, fs>>

\* what the threads encrypt
ThreadPayloads == {PyStr(Hello)} \cup ListPayloads

\* the handle is constructed, then its threads call encrypt_data and
\* decrypt_data at the same time, each call advancing a step at a time
NextThreads ==
    \/ Initialize
    \/ \E t \in ThreadIds, data \in ThreadPayloads : BeginEncrypt(t, data)
    \/ \E t \in ThreadIds : DrawSalt(t)
    \/ \E t \in ThreadIds : DrawNonce(t)
    \/ \E t \in ThreadIds : DeriveEncryptKey(t)
    \/ \E t \in ThreadIds : Seal(t)
    \/ \E t \in ThreadIds, i \in DOMAIN produced :
          \E envelope \in {produced[i].envelope,
                            [produced[i].envelope EXCEPT !.salt = NotBase64]} :
             BeginDecrypt(t, envelope)
    \/ \E t \in ThreadIds : DeriveDecryptKey(t)
    \/ \E t \in ThreadIds : Open(t)
    \/ \E t \in ThreadIds : Return(t)

SpecThreads == Init /\ [][NextThreads]_vars

Next ==
    \/ \E value \in EnvChanges : SetEnv(value)
    \/ Initialize
    \/ \E data \in Payloads : Encrypt(data)
    \/ \E i \in DOMAIN produced :
          \E envelope \in {produced[i].envelope} \cup Tampered(produced[i].envelope) :
             Decrypt(i, envelope)
    \/ \E data \in Payloads, path \in MainPaths,
          io \in {"ok", "open_fails", "write_fails"} : Store(data, path, io)
    \/ \E path \in MainPaths, io \in {"ok", "open_fails"} : Load(path, io)
    \/ \E path \in MainPaths : CorruptFile(path)

Spec == Init /\ [][Next]_vars

\* the payloads of the calls whose random draws are compared: a string and
\* the bytes of the same text (equal plaintexts), and a mapping
UniquePayloads == {PyStr(Hello), PyBytes(Hello)} \cup DictPayloads

\* the calls that draw a salt and a nonce (encrypt_data, directly or from
\* store_encrypted), the construction and the changes of the environment
NextUnique ==
    \/ \E value \in EnvChanges : SetEnv(value)
    \/ Initialize
    \/ \E data \in UniquePayloads : Encrypt(data)
    \/ \E data \in UniquePayloads, path \in MainPaths : Store(data, path, "ok")

SpecUnique == Init /\ [][NextUnique]_vars

\* construction, changes of the environment, encrypt_data, and decrypt_data
\* called with whatever a caller can present: the envelope as returned, an
\* altered copy, or a malformed one
NextDecrypt ==
    \/ \E value \in EnvChanges : SetEnv(value)
    \/ Initialize
    \/ \E data \in Payloads : Encrypt(data)
    \/ \E i \in DOMAIN produced :
          \E envelope \in Presented(produced[i].envelope) : Decrypt(i, envelope)

SpecDecrypt == Init /\ [][NextDecrypt]_vars

\* a payload encrypt_data accepts and one it does not
FramePayloads == {PyStr(Hello)} \cup ListPayloads

\* every call of the component, over two paths, with every outcome of the
\* file system; nothing but the component touches the files
NextFrame ==
    \/ \E value \in EnvChanges : SetEnv(value)
    \/ Initialize
    \/ \E data \in FramePayloads : Encrypt(data)
    \/ \E i \in DOMAIN produced : Decrypt(i, produced[i].envelope)
    \/ \E data \in FramePayloads, path \in Paths,
          io \in {"ok", "open_fails", "write_fails"} : Store(data, path, io)
    \/ \E path \in Paths, io \in {"ok", "open_fails"} : Load(path, io)

SpecFrame == Init /\ [][NextFrame]_vars

\* every call of the component on a handle whose environment variable stays
\* as it was at construction
NextHeld ==
    \/ Initialize
    \/ \E data \in Payloads : Encrypt(data)
    \/ \E i \in DOMAIN produced :
          \E envelope \in Presented(produced[i].envelope) : Decrypt(i, envelope)
    \/ \E data \in Payloads, path \in MainPaths,
          io \in {"ok", "open_fails", "write_fails"} : Store(data, path, io)
    \/ \E path \in MainPaths, io \in {"ok", "open_fails"} : Load(path, io)

SpecHeld == Init /\ [][NextHeld]_vars

----------------------------------------------------------------------------
(* Properties *)

\* bytes of an envelope, and the key and plaintext its ciphertext holds
SaltOf(envelope) == B64Decode(envelope.salt).v
NonceOf(envelope) == B64Decode(envelope.nonce).v
CiphertextOf(envelope) == B64Decode(envelope.ciphertext).v
KeyOf(envelope) == CiphertextOf(envelope).key
PlaintextOf(envelope) == CiphertextOf(envelope).pt

\* C1: decrypt_data of an untampered envelope that encrypt_data produced
\* under the same secret returns the original payload, of the same type
\* (text as text, bytes as bytes, a mapping as a mapping).
C1_RoundTrip ==
    (last.op = "decrypt" /\ ~last.tampered /\ last.environ = last.secret)
        => last.out = Returned(last.payload)

\* C2: decrypt_data of an envelope whose ciphertext, salt or nonce was
\* altered returns no payload and fails with AuthenticationError.
C2_TamperDetection ==
    (last.op = "decrypt" /\ last.tampered /\ last.environ = last.secret)
        => last.out.exc = "AuthenticationError"

\* C3: decrypt_data under a secret other than the one the envelope was
\* encrypted under fails with AuthenticationError.
C3_WrongKey ==
    (last.op = "decrypt" /\ ~last.tampered /\ last.environ.set
        /\ last.environ # last.secret)
        => last.out.exc = "AuthenticationError"

\* C4: construction fails when the variable is absent or empty, before any
\* key derivation or cipher operation, and no encrypt_data or decrypt_data
\* is ever attempted on a handle without a secret.
C4_MissingConfiguration ==
    /\ (last.op = "init" /\ GetenvIsFalsy(last.environ))
          => (last.out.exc # "none" /\ ~storage.exists /\ used = {})
    /\ last.op \in {"encrypt", "decrypt"} => ~GetenvIsFalsy(last.environ)

\* C5: the secret is read once at construction and held: after the variable
\* is changed or removed, encrypt_data still keys its envelope with the secret
\* read at construction, and decrypt_data still gives what that secret gives.
C5_SecretHeldFromConstruction ==
    /\ (last.op = "encrypt" /\ last.payload.t = "str")
          => /\ last.out.exc = "none"
             /\ KeyOf(last.envelope).password = Utf8Encode(initSecret.v)
    /\ last.op = "decrypt" => last.out = DecryptData(last.envelope, initSecret)

\* C6: any two calls of encrypt_data, even with the same payload and the
\* same secret, give envelopes with different salts, different nonces and
\* different ciphertexts, and no (derived key, nonce) pair is used twice.
C6_Uniqueness ==
    \A i, j \in DOMAIN produced :
        i < j =>
            /\ SaltOf(produced[i].envelope) # SaltOf(produced[j].envelope)
            /\ NonceOf(produced[i].envelope) # NonceOf(produced[j].envelope)
            /\ CiphertextOf(produced[i].envelope) # CiphertextOf(produced[j].envelope)
            /\ <<KeyOf(produced[i].envelope), NonceOf(produced[i].envelope)>>
                 # <<KeyOf(produced[j].envelope), NonceOf(produced[j].envelope)>>

\* two envelopes of the same payload under the same secret exist
C6_SamePayloadTwice ==
    \E i, j \in DOMAIN produced :
        /\ i < j
        /\ produced[i].payload = produced[j].payload
        /\ produced[i].secret = produced[j].secret

\* the value the format fallback is said to give for the plaintext bytes:
\* the parsed value when they are UTF-8 JSON, else the text when they are
\* UTF-8, else the bytes
FallbackText(text, j) == IF j.exc = "none" THEN j.v ELSE PyStr(text)
FallbackDecoded(bytes, d) ==
    IF d.exc # "none" THEN PyBytes(bytes) ELSE FallbackText(d.v, JsonLoads(d.v))
FallbackValue(bytes) == FallbackDecoded(bytes, Utf8Decode(bytes))

\* C7: once the tag has verified, decrypt_data never raises: it returns the
\* parsed value for UTF-8 JSON, else the string for UTF-8 text, else the bytes.
C7_FormatFallback ==
    (last.op = "decrypt" /\ TagVerifies(last.envelope, last.environ))
        => last.out = Returned(FallbackValue(PlaintextOf(last.envelope)))

\* C8: load_encrypted of a path that store_encrypted wrote, the file left
\* as written and the secret the same, returns the stored payload.
C8_StorageRoundTrip ==
    (last.op = "load" /\ last.io = "ok" /\ last.envelope # NoEnvelope
        /\ ~last.tampered /\ last.environ = last.secret)
        => last.out = Returned(last.payload)

\* C9: store_encrypted and load_encrypted fail only with StorageError.
C9_OnlyStorageError ==
    (last.op \in {"store", "load"} /\ last.out.exc # "none")
        => last.out.exc = "StorageError"

\* C10: load_encrypted of a file whose ciphertext was corrupted, or that is
\* read under a different secret, raises StorageError for the authentication
\* failure, and what it raises differs from what a missing file and what a
\* file of malformed JSON raise.
C10_AuthFailureVisible ==
    (last.op = "load" /\ last.io = "ok" /\ last.envelope # NoEnvelope
        /\ (last.tampered \/ (last.environ.set /\ last.environ # last.secret)))
        => /\ last.out.exc = "StorageError"
           /\ <<last.out.exc, last.out.msg>>
                 # <<LoadOutcome(MissingFile, last.environ, "ok").exc,
                     LoadOutcome(MissingFile, last.environ, "ok").msg>>
           /\ <<last.out.exc, last.out.msg>>
                 # <<LoadOutcome(PartialFile, last.environ, "ok").exc,
                     LoadOutcome(PartialFile, last.environ, "ok").msg>>

\* C11: decrypt_data raises AuthenticationError exactly when the tag does
\* not verify; every other failure (a missing field, invalid base64, a salt
\* or nonce of the wrong length, a ciphertext shorter than the tag, no
\* secret) raises DecryptionError and never AuthenticationError.
C11_DecryptTaxonomy ==
    (last.op = "decrypt" /\ last.out.exc # "none")
        => last.out.exc =
              IF ~last.malformed /\ last.environ.set
                 /\ ~TagVerifies(last.envelope, last.environ)
              THEN "AuthenticationError" ELSE "DecryptionError"

\* C12: every failure inside encrypt_data reaches the caller as
\* EncryptionError, and then no envelope is returned.
C12_EncryptFailure ==
    (last.op = "encrypt" /\ last.out.exc # "none")
        => (last.out.exc = "EncryptionError" /\ last.envelope = NoEnvelope)

\* C13: a store_encrypted call that fails leaves the file at its path
\* with its complete previous content or with a complete new envelope, never
\* empty, truncated or partial.
C13_NoPartialWrite ==
    [][(last'.op = "store" /\ last'.out.exc # "none")
          => \/ fs'[last'.path] = fs[last'.path]
             \/ fs'[last'.path].kind = "json"]_vars

\* C19: the file system changes only in a store_encrypted call whose
\* encrypt_data step succeeded, and then only at the given path; a store
\* whose encryption fails, and every other call, leaves every file as it was.
C19_FileSystemFrame ==
    [][fs' # fs
          => /\ last'.op = "store"
             /\ last'.envelope # NoEnvelope
             /\ \A p \in Paths \ {last'.path} : fs'[p] = fs[p]]_vars

\* a store whose encryption failed has left the file at its path, written by
\* an earlier store, in place, and no file at the other path
C19_FailedStoreOverFile ==
    /\ last.op = "store"
    /\ last.out.exc # "none"
    /\ last.envelope = NoEnvelope
    /\ fs[last.path].kind = "json"
    /\ \A p \in Paths \ {last.path} : fs[p].kind = "missing"

\* the envelope has exactly the three fields, each base64 text, a salt of
\* 16 bytes, a nonce of 12 bytes and a ciphertext of the payload's bytes
\* plus a 16-byte tag
WellFormed(envelope, data) ==
    /\ DOMAIN envelope = {"ciphertext", "salt", "nonce"}
    /\ \A f \in DOMAIN envelope : envelope[f].enc = "base64"
    /\ Len(SaltOf(envelope)) = 16
    /\ Len(NonceOf(envelope)) = 12
    /\ CiphertextLen(CiphertextOf(envelope)) = Len(ToBytes(data).v.v) + 16

\* C14: every envelope encrypt_data returns, and every envelope
\* store_encrypted writes, has exactly the fields ciphertext, salt and nonce
\* in base64, decoding to 16 bytes of salt, 12 bytes of nonce and the
\* plaintext's length plus 16 bytes of ciphertext.
C14_EnvelopeFormat ==
    /\ \A i \in DOMAIN produced :
          WellFormed(produced[i].envelope, produced[i].payload)
    /\ \A p \in Paths :
          fs[p].kind = "json"
              => /\ fs[p].src \in DOMAIN produced
                 /\ fs[p].obj = produced[fs[p].src].envelope

\* an envelope of a mapping was returned and an envelope was written
C14_ReturnedAndWritten ==
    /\ \E i \in DOMAIN produced : produced[i].payload.t = "dict"
    /\ \E p \in Paths : fs[p].kind = "json"

\* the envelopes store_encrypted has written to path p, and the last of them
StoredTo(p) == {i \in DOMAIN produced : produced[i].stored = p}
LastStored(p) == CHOOSE i \in StoredTo(p) : \A j \in StoredTo(p) : j <= i

\* C17: after successful store_encrypted calls to one path, the file holds
\* exactly the envelope of the last of them, and load_encrypted returns the
\* payload of the last store.
C17_StoreOverwrites ==
    (/\ last.op = "load" /\ last.io = "ok"
     /\ Cardinality(StoredTo(last.path)) >= 2
     /\ fs[last.path].kind = "json" /\ ~fs[last.path].corrupted
     /\ last.environ = produced[LastStored(last.path)].secret)
        => /\ fs[last.path].obj = produced[LastStored(last.path)].envelope
           /\ last.out = Returned(produced[LastStored(last.path)].payload)

\* the secrets the environment can hold, as text, and the keys derived so far
SecretTexts == {AsText(SecretA), AsText(SecretB)}
SecretBytes == {Utf8Encode(SecretA), Utf8Encode(SecretB)}
DerivedKeys == {KeyOf(produced[i].envelope) : i \in DOMAIN produced}

\* the envelope lets out two random values and a ciphertext, and nothing else
LetsOutNoSecret(envelope) ==
    /\ DOMAIN envelope = {"ciphertext", "salt", "nonce"}
    /\ SaltOf(envelope) \in used \ SecretBytes
    /\ NonceOf(envelope) \in used \ SecretBytes

\* no piece of the message is the text of a secret
ShowsNoSecret(message) == \A k \in DOMAIN message : message[k] \notin SecretTexts

\* C15: neither the secret nor a derived key appears in a returned
\* envelope, in a file store_encrypted wrote, in a log record or in the
\* message of an exception.
C15_SecretConfidentiality ==
    /\ \A i \in DOMAIN produced : LetsOutNoSecret(produced[i].envelope)
    /\ \A p \in Paths : fs[p].kind = "json" => LetsOutNoSecret(fs[p].obj)
    /\ ShowsNoSecret(last.out.msg)
    /\ \A k \in DOMAIN last.out.log : ShowsNoSecret(last.out.log[k])

\* a call has failed and logged while a secret was set, and an envelope is
\* on disk
C15_FailedWithSecretSet ==
    /\ last.out.exc # "none"
    /\ last.out.log # <<>>
    /\ last.environ.set
    /\ \E p \in Paths : fs[p].kind = "json"

\* the result thread t's call gives when it runs alone with the salt and
\* nonce it drew
ResultAlone(t) ==
    IF threads[t].op = "encrypt"
    THEN EncryptData(threads[t].data, env, threads[t].salt, threads[t].nonce)
    ELSE DecryptData(threads[t].envelope, env)

\* C16: when encrypt_data and decrypt_data calls on one handle are
\* interleaved in any order, each call ends with the result it gives when run
\* alone, and no two calls in progress hold the same salt or the same nonce
\* of their own drawing.
C16_ParallelSafety ==
    /\ \A t \in ThreadIds : threads[t].pc = "done" => threads[t].out = ResultAlone(t)
    /\ \A t, u \in ThreadIds :
          (t # u /\ threads[t].op = "encrypt" /\ threads[u].op = "encrypt")
              => /\ threads[t].salt # <<>> => threads[t].salt # threads[u].salt
                 /\ threads[t].nonce # <<>> => threads[t].nonce # threads[u].nonce

\* one encrypt_data call has finished with an envelope while another, which
\* drew its salt later and its nonce earlier, is still in progress
C16_Interleaved ==
    \E t, u \in ThreadIds :
        /\ threads[t].pc = "done" /\ threads[t].op = "encrypt"
        /\ threads[t].out.exc = "none"
        /\ threads[u].pc = "nonced" /\ threads[u].op = "encrypt"
        /\ threads[t].salt = RandomBytes(SALT_LENGTH, 1)
        /\ threads[u].salt = RandomBytes(SALT_LENGTH, 2)
        /\ threads[u].nonce = RandomBytes(NONCE_LENGTH, 1)

\* what decrypt_data makes of an envelope under a secret, from nothing else
OutcomeOf(secret, envelope) ==
    DecryptDecoded(secret, DecodeField(envelope, "ciphertext"),
                   DecodeField(envelope, "salt"), DecodeField(envelope, "nonce"))

====
